---- MODULE Spec2Model ----
(***************************************************************************)
(* Model of the PMO analytics repository: the EDA script                   *)
(* (data_analytics.py), the batch report (generate_report.py) and the      *)
(* Streamlit dashboard (app.py).  A table is a pandas DataFrame: a set of  *)
(* column names and a sequence of rows; a cell is a tagged value.          *)
(***************************************************************************)
EXTENDS Integers, Sequences, FiniteSets, TLC

(***************************************************************************)
(* Cells.  k is the kind: "na" (NaN / NaT, the absent marker), "num" (a    *)
(* number v/d in lowest terms, d > 0), "inf" (v = 1: +inf, v = -1: -inf),  *)
(* "str" (text s), "date" (a timestamp, v = yyyymmdd).                     *)
(***************************************************************************)
NA == [k |-> "na", v |-> 0, d |-> 1, s |-> ""]
Num(n) == [k |-> "num", v |-> n, d |-> 1, s |-> ""]
Str(x) == [k |-> "str", v |-> 0, d |-> 1, s |-> x]
Inf(sign) == [k |-> "inf", v |-> sign, d |-> 1, s |-> ""]
Date(n) == [k |-> "date", v |-> n, d |-> 1, s |-> ""]

Abs(n) == IF n < 0 THEN -n ELSE n

RECURSIVE Gcd(_, _)
Gcd(a, b) == IF b = 0 THEN a ELSE Gcd(b, a % b)

\* The number n/d (d # 0) in lowest terms with a positive denominator.
Rat(n, d) ==
  LET g == Gcd(Abs(n), Abs(d))
      sg == IF d < 0 THEN -1 ELSE 1
  IN [k |-> "num", v |-> sg * (n \div g), d |-> sg * (d \div g), s |-> ""]

IsNum(c) == c.k = "num"
IsNumeric(c) == c.k \in {"num", "inf", "na"}

\* IEEE addition as numpy applies it elementwise (NaN absorbs, inf - inf = NaN).
Add(a, b) ==
  IF a.k = "na" \/ b.k = "na" THEN NA
  ELSE IF a.k = "inf" /\ b.k = "inf" THEN (IF a.v = b.v THEN a ELSE NA)
  ELSE IF a.k = "inf" THEN a
  ELSE IF b.k = "inf" THEN b
  ELSE Rat(a.v * b.d + b.v * a.d, a.d * b.d)

Neg(a) ==
  IF a.k = "inf" THEN Inf(-a.v)
  ELSE IF a.k = "num" THEN Rat(-a.v, a.d)
  ELSE a

Sub(a, b) == Add(a, Neg(b))

Sign(n) == IF n > 0 THEN 1 ELSE IF n < 0 THEN -1 ELSE 0

\* IEEE true division as numpy applies it elementwise: x/0 is +-inf, 0/0 and
\* inf/inf are NaN, and no exception is raised.
Div(a, b) ==
  IF a.k = "na" \/ b.k = "na" THEN NA
  ELSE IF a.k = "inf" /\ b.k = "inf" THEN NA
  ELSE IF a.k = "inf" THEN Inf(IF b.v < 0 THEN -a.v ELSE a.v)
  ELSE IF b.k = "inf" THEN Num(0)
  ELSE IF b.v = 0 THEN (IF a.v = 0 THEN NA ELSE Inf(Sign(a.v)))
  ELSE Rat(a.v * b.d, a.d * b.v)

\* Multiplication by a positive finite constant.
Scale(a, n) ==
  IF a.k = "num" THEN Rat(a.v * n, a.d) ELSE a

\* Order of two finite numbers.
Less(a, b) == a.v * b.d < b.v * a.d

(***************************************************************************)
(* Text values of the model in lexicographic order; StrRank is the order   *)
(* Python compares them in.                                                *)
(***************************************************************************)
Texts == <<"", "-100", "0", "100", "2026-01", "2026-01-15", "2026-02", "2026-02-10", "Active",
           "Approved", "C1", "Completed", "Construction", "Critical", "Dubai",
           "E1", "E2", "E3", "E9", "Employee 1", "Employee 2", "Employee 3",
           "Engineering", "False", "Finance", "High", "In Progress",
           "Indian", "Low", "Materials", "NaT", "P1", "P2", "P3", "P9",
           "Project 1", "Project 2", "Project 3", "Real Estate", "Travel",
           "True", "V1", "V2", "V3", "V9", "Vendor 1", "Vendor 2",
           "Vendor 3", "abc">>

StrRank(x) == CHOOSE i \in 1..Len(Texts) : Texts[i] = x

\* Order of group keys: numbers before text (pandas safe_sort on mixed keys),
\* numbers by value, text lexicographically.
KeyLess(a, b) ==
  IF a.k = "num" /\ b.k = "num" THEN Less(a, b)
  ELSE IF a.k = "num" THEN b.k = "str"
  ELSE IF a.k = "str" /\ b.k = "str" THEN StrRank(a.s) < StrRank(b.s)
  ELSE FALSE

RECURSIVE SortKeys(_)
SortKeys(S) ==
  IF S = {} THEN <<>>
  ELSE LET m == CHOOSE x \in S : \A y \in S \ {x} : KeyLess(x, y)
       IN <<m>> \o SortKeys(S \ {m})

(***************************************************************************)
(* Tables: [cols: the column names, rows: the rows in order], each row a   *)
(* function from cols to cells.                                            *)
(***************************************************************************)
EmptyTable(cols) == [cols |-> cols, rows |-> <<>>]

NRows(t) == Len(t.rows)

Column(t, c) == [i \in 1..Len(t.rows) |-> t.rows[i][c]]

\* df[c] = f(row) for every row: adds or overwrites column c.
WithColumn(t, c, f(_)) ==
  [cols |-> t.cols \cup {c},
   rows |-> [i \in 1..Len(t.rows) |->
              [x \in t.cols \cup {c} |->
                 IF x = c THEN f(t.rows[i]) ELSE t.rows[i][x]]]]

\* df[[c1, c2, ...]]: the projection on the columns cs.
Project(t, cs) ==
  [cols |-> cs,
   rows |-> [i \in 1..Len(t.rows) |-> [x \in cs |-> t.rows[i][x]]]]

\* Whether a column holds a text cell (its dtype is object).
TextCells(cs) == \E i \in 1..Len(cs) : cs[i].k = "str"

\* The texts of a column joined in row order.
RECURSIVE Concat(_)
Concat(cs) ==
  IF cs = <<>> THEN ""
  ELSE IF Head(cs).k = "str" THEN Head(cs).s \o Concat(Tail(cs))
  ELSE Concat(Tail(cs))

\* The sum of number cells: NaN is skipped, the empty sum is 0.
RECURSIVE SumNumbers(_)
SumNumbers(cs) ==
  IF cs = <<>> THEN Num(0)
  ELSE IF Head(cs).k = "na" THEN SumNumbers(Tail(cs))
  ELSE Add(Head(cs), SumNumbers(Tail(cs)))

\* Series.sum() raises TypeError on a text column with a NaN cell: NaN is
\* replaced by 0 before the cells are added, and 0 + 'abc' is no sum.
SumRaises(cs) == TextCells(cs) /\ \E i \in 1..Len(cs) : cs[i].k = "na"

\* Series.sum(): of numbers their sum, of text the texts joined.
SumCells(cs) == IF TextCells(cs) THEN Str(Concat(cs)) ELSE SumNumbers(cs)

NotNa(c) == c.k # "na"

\* Series.mean(): NaN is skipped; the mean of no value is NaN.
MeanCells(cs) ==
  LET present == SelectSeq(cs, NotNa)
  IN IF present = <<>> THEN NA
     ELSE Div(SumNumbers(present), Num(Len(present)))

\* The cells of column val in the rows whose column key holds kv.
GroupCells(t, key, val, kv) ==
  LET InGroup(r) == r[key] = kv
      sel == SelectSeq(t.rows, InGroup)
  IN [i \in 1..Len(sel) |-> sel[i][val]]

\* The distinct group keys of groupby(key): rows whose key is NaN belong to
\* no group (dropna=True), and the groups come out sorted by key.
GroupKeys(t, key) ==
  SortKeys({t.rows[i][key] : i \in 1..Len(t.rows)} \ {NA})

\* df.groupby(key)[val].sum().reset_index(name=name)
GroupSum(t, key, val, name) ==
  LET ks == GroupKeys(t, key)
  IN [cols |-> {key, name},
      rows |-> [i \in 1..Len(ks) |->
                 [x \in {key, name} |->
                    IF x = key THEN ks[i]
                    ELSE SumCells(GroupCells(t, key, val, ks[i]))]]]

\* df.groupby(key)[val].mean() as a table with columns key and val.
GroupMean(t, key, val) ==
  LET ks == GroupKeys(t, key)
  IN [cols |-> {key, val},
      rows |-> [i \in 1..Len(ks) |->
                 [x \in {key, val} |->
                    IF x = key THEN ks[i]
                    ELSE MeanCells(GroupCells(t, key, val, ks[i]))]]]

\* The rows a left row joins with: the right rows with an equal key (pandas
\* also joins NaN with NaN).
Matches(r, lrow, on) ==
  LET Hit(rrow) == rrow[on] = lrow[on]
  IN SelectSeq(r.rows, Hit)

JoinRow(lrow, rrow, lcols, rcols) ==
  [x \in lcols \cup rcols |-> IF x \in lcols THEN lrow[x] ELSE rrow[x]]

NaRow(cols) == [x \in cols |-> NA]

RECURSIVE MergeRows(_, _, _, _, _)
MergeRows(lrows, l, r, on, keepUnmatched) ==
  IF lrows = <<>> THEN <<>>
  ELSE LET lrow == Head(lrows)
           ms == Matches(r, lrow, on)
           here == IF ms = <<>>
                   THEN (IF keepUnmatched
                         THEN <<JoinRow(lrow, NaRow(r.cols), l.cols, r.cols)>>
                         ELSE <<>>)
                   ELSE [j \in 1..Len(ms) |->
                           JoinRow(lrow, ms[j], l.cols, r.cols)]
       IN here \o MergeRows(Tail(lrows), l, r, on, keepUnmatched)

\* The dtype class of a key column as pd.read_csv types it: object for a
\* column with a text cell and for a file with no rows, a number dtype for
\* a column of empty cells (float64) or of numbers.
KeyDtype(t, c) ==
  IF NRows(t) = 0 \/ TextCells(Column(t, c)) THEN "object" ELSE "number"

\* merge raises ValueError when it joins an object key with a number key;
\* it skips the test when exactly one side has no rows.  ldt and rdt are the
\* dtype classes of the two keys, ln and rn the rows of the two frames.
MergeRaises(ldt, ln, rdt, rn) == ((ln = 0) <=> (rn = 0)) /\ ldt # rdt

\* l.merge(r, on=on, how='left'): every left row is kept, in left order.
MergeLeft(l, r, on) ==
  [cols |-> l.cols \cup r.cols, rows |-> MergeRows(l.rows, l, r, on, TRUE)]

\* l.merge(r, on=on): how defaults to 'inner', unmatched left rows are dropped.
MergeInner(l, r, on) ==
  [cols |-> l.cols \cup r.cols, rows |-> MergeRows(l.rows, l, r, on, FALSE)]

\* The whole numbers the files of the model write in a money column.
CsvNumbers == {-100, 0, 100}

\* A text cell read as a number: NaN if the text is no number.
ParseNumber(x) ==
  IF \E n \in CsvNumbers : ToString(n) = x
  THEN Num(CHOOSE n \in CsvNumbers : ToString(n) = x)
  ELSE NA

\* pd.read_csv on one column: a cell that is no number makes the column
\* text (dtype object), its numbers stay the text the file holds; an empty
\* cell is NaN in either case.
ReadColumn(cs) ==
  [i \in 1..Len(cs) |->
     IF TextCells(cs) /\ cs[i].k = "num" THEN Str(ToString(cs[i].v))
     ELSE cs[i]]

\* pd.read_csv(path) on a file.
ReadCsv(t) ==
  [cols |-> t.cols,
   rows |-> [i \in 1..Len(t.rows) |->
              [x \in t.cols |-> ReadColumn(Column(t, x))[i]]]]

\* pd.to_numeric(errors='coerce') on one cell: text that is no number
\* becomes NaN.
ToNumeric(c) ==
  IF c.k \in {"num", "inf"} THEN c
  ELSE IF c.k = "str" THEN ParseNumber(c.s)
  ELSE NA

\* fillna(0) on one cell.
FillNa0(c) == IF c.k = "na" THEN Num(0) ELSE c

\* DataFrame.fillna(0): every NaN of every column.
FillNaTable(t) ==
  [cols |-> t.cols,
   rows |-> [i \in 1..Len(t.rows) |->
              [x \in t.cols |-> FillNa0(t.rows[i][x])]]]

\* A text cell that pd.to_datetime can read, as yyyymmdd; 0 if it cannot.
ParseDate(x) ==
  IF x = "2026-01-15" THEN 20260115
  ELSE IF x = "2026-02-10" THEN 20260210
  ELSE 0

\* A date conversion that reads text only: a cell that is a timestamp
\* already is not recognised and becomes NaT.
ToDatetime_TextOnly(c) ==
  IF c.k = "str" /\ ParseDate(c.s) # 0 THEN Date(ParseDate(c.s)) ELSE NA

\* pd.to_datetime(errors='coerce') on one cell of a date column (text, a
\* timestamp or NaN): unreadable text becomes NaT.
ToDatetime(c) ==
  IF c.k = "date" THEN c
  ELSE IF c.k = "str" /\ ParseDate(c.s) # 0 THEN Date(ParseDate(c.s))
  ELSE NA

\* df[c] = g(df[c]) cell by cell.
MapColumn(t, c, g(_)) ==
  [cols |-> t.cols,
   rows |-> [i \in 1..Len(t.rows) |->
              [x \in t.cols |->
                 IF x = c THEN g(t.rows[i][x]) ELSE t.rows[i][x]]]]

(***************************************************************************)
(* Ordering and truncation.  An order of n rows is a permutation f of      *)
(* 1..n: row f[i] of the input is row i of the result.                     *)
(***************************************************************************)
Perms(n) == {f \in [1..n -> 1..n] : \A i, j \in 1..n : f[i] = f[j] => i = j}

\* The orders sort_values(kind='quicksort', the default) may leave the
\* finite numbers cells in: quicksort is not a stable sort, so rows with
\* equal values come out in an order pandas does not specify.
SortOrders(cells, ascending) ==
  {f \in Perms(Len(cells)) :
     \A i, j \in 1..Len(cells) :
       i < j => IF ascending THEN ~Less(cells[f[j]], cells[f[i]])
                ELSE ~Less(cells[f[i]], cells[f[j]])}

Reorder(rows, f) == [i \in 1..Len(rows) |-> rows[f[i]]]

\* head(n).
FirstN(rows, n) == SubSeq(rows, 1, IF Len(rows) < n THEN Len(rows) ELSE n)

\* The tables sort_values(c).head(n) may return.
SortHead(t, c, ascending, n) ==
  {[cols |-> t.cols, rows |-> FirstN(Reorder(t.rows, f), n)] :
     f \in SortOrders(Column(t, c), ascending)}

\* The tables sort_values(c) may return.
SortAll(t, c, ascending) == SortHead(t, c, ascending, Len(t.rows))

\* The row r put into rows, which are in descending order of c, behind
\* every row that is not smaller.
RECURSIVE InsertDesc(_, _, _)
InsertDesc(rows, r, c) ==
  IF rows = <<>> THEN <<r>>
  ELSE IF Less(Head(rows)[c], r[c]) THEN <<r>> \o rows
  ELSE <<Head(rows)>> \o InsertDesc(Tail(rows), r, c)

RECURSIVE SortDescFirst(_, _)
SortDescFirst(rows, c) ==
  IF rows = <<>> THEN <<>>
  ELSE InsertDesc(SortDescFirst(SubSeq(rows, 1, Len(rows) - 1), c),
                  rows[Len(rows)], c)

\* The tables DataFrame.nlargest(n, c), keep='first', may return.  With n
\* not below the number of rows it is sort_values(c, ascending=False).head(n),
\* equal values in any order; otherwise the n rows with the largest values
\* in descending order, equal values in their original order.
NLargest(t, n, c) ==
  IF n >= Len(t.rows)
  THEN SortHead(t, c, FALSE, n)
  ELSE {[cols |-> t.cols, rows |-> FirstN(SortDescFirst(t.rows, c), n)]}

\* df[df[c] < 0].
WhereNegative(t, c) ==
  LET Neg0(r) == Less(r[c], Num(0))
  IN [cols |-> t.cols, rows |-> SelectSeq(t.rows, Neg0)]

(***************************************************************************)
(* The table files.                                                        *)
(***************************************************************************)
\* data_analytics.load_data's files mapping.
EdaTables == {"assignments", "clients", "employees", "expenses", "milestones",
              "projects", "purchase_orders", "risks", "tasks", "timesheets",
              "vendors"}

\* generate_report.load_and_clean's files mapping.
ReportTables == {"clients", "employees", "expenses", "projects",
                 "purchase_orders", "risks", "tasks", "timesheets", "vendors"}

\* etl_process's date_cols mapping, as (table, column) pairs.
DateCols ==
  {<<"projects", "start_date">>, <<"projects", "end_date">>,
   <<"assignments", "start_date">>, <<"assignments", "end_date">>,
   <<"expenses", "date">>,
   <<"milestones", "planned_start">>, <<"milestones", "planned_end">>,
   <<"purchase_orders", "issue_date">>,
   <<"tasks", "start_date">>, <<"tasks", "end_date">>,
   <<"timesheets", "date">>,
   <<"employees", "joining_date">>}

\* etl_process's numeric conversions, in program order.
EtlNumericCols ==
  << <<"projects", "budget_aed">>, <<"projects", "completion_percentage">>,
     <<"expenses", "amount_aed">>, <<"purchase_orders", "amount_aed">>,
     <<"employees", "salary_aed">> >>

\* load_and_clean's numeric conversions, in program order.
ReportNumericCols ==
  << <<"projects", "budget_aed">>, <<"expenses", "amount_aed">>,
     <<"purchase_orders", "amount_aed">>, <<"employees", "salary_aed">> >>

VARIABLES
  files,   \* the table files that exist: logical table name -> its content
  prog,    \* the script that runs: "eda", "report" or "app"
  pc,      \* the script's position
  dfs,     \* the dict of DataFrames the script holds
  warned,  \* the tables data_analytics.load_data warned about
  err,     \* the exception that ended the script, "" if none
  out,     \* the derived tables and figures computed so far, by name
  cache,   \* the dashboard's st.cache_data entry for load_data
  loads,   \* how often the body of the dashboard's load_data has run
  page,    \* the view selected in the dashboard's sidebar
  sel      \* the state of the three multiselects of Project Analytics

vars == <<files, prog, pc, dfs, warned, err, out, cache, loads, page, sel>>

app == <<cache, loads, page, sel>>

NoOut == [n \in {} |-> NA]

(***************************************************************************)
(* data_analytics.py                                                       *)
(***************************************************************************)
\* load_data: every file that exists is read, every other one is warned
\* about.
\* A loader without the existence test: every table gets an entry.
LoadedFrom_NoTest(fs, names) ==
  [n \in names |-> IF n \in DOMAIN fs THEN ReadCsv(fs[n]) ELSE EmptyTable({})]

LoadedFrom(fs, names) == [n \in names \cap DOMAIN fs |-> ReadCsv(fs[n])]

EdaLoadData ==
  /\ prog = "eda" /\ pc = "start"
  /\ dfs' = LoadedFrom(files, EdaTables)
  /\ warned' = EdaTables \ DOMAIN files
  /\ pc' = "loaded"
  /\ UNCHANGED <<files, prog, err, out, app>>

\* The date loop of etl_process: a column is converted when its table is
\* loaded and the table has the column.
ConvertDates(d, dateCols) ==
  [n \in DOMAIN d |->
     [cols |-> d[n].cols,
      rows |-> [i \in 1..Len(d[n].rows) |->
                 [x \in d[n].cols |->
                    IF <<n, x>> \in dateCols
                    THEN ToDatetime(d[n].rows[i][x])
                    ELSE d[n].rows[i][x]]]]]

NumericCell(c) == FillNa0(ToNumeric(c))

\* The numeric conversions, one assignment after the other: a table that is
\* not loaded is skipped, a loaded table without the column raises KeyError
\* and leaves the earlier assignments done.
RECURSIVE ConvertNumeric(_, _)
ConvertNumeric(d, steps) ==
  IF steps = <<>> THEN [dfs |-> d, err |-> ""]
  ELSE LET n == Head(steps)[1]
           c == Head(steps)[2]
       IN IF n \notin DOMAIN d THEN ConvertNumeric(d, Tail(steps))
          ELSE IF c \notin d[n].cols THEN [dfs |-> d, err |-> "KeyError"]
          ELSE ConvertNumeric(
                 [d EXCEPT ![n] = MapColumn(d[n], c, NumericCell)],
                 Tail(steps))

etl_process(d) == ConvertNumeric(ConvertDates(d, DateCols), EtlNumericCols)

EtlProcess ==
  /\ prog = "eda" /\ pc = "loaded"
  /\ LET r == etl_process(dfs)
     IN /\ dfs' = r.dfs
        /\ err' = r.err
        /\ pc' = IF r.err = "" THEN "etl" ELSE "aborted"
  /\ UNCHANGED <<files, prog, warned, out, app>>

\* Whether every (table, column) pair of need is a column of its table.
HasCols(d, need) == \A p \in need : p[2] \in d[p[1]].cols

\* The financial-health table as it would be with the joins left at pandas'
\* default, how='inner': projects without expenses or purchase orders are
\* lost.
FinHealthEda_InnerJoin(d) ==
  LET proj_expenses == GroupSum(d["expenses"], "project_id", "amount_aed",
                                "total_expenses")
      proj_pos == GroupSum(d["purchase_orders"], "project_id", "amount_aed",
                           "total_pos")
      fin0 == Project(d["projects"], {"project_id", "project_name",
                                      "budget_aed", "status", "type"})
      fin1 == FillNaTable(MergeInner(fin0, proj_expenses, "project_id"))
      fin2 == FillNaTable(MergeInner(fin1, proj_pos, "project_id"))
      fin3 == WithColumn(fin2, "total_actuals",
                LAMBDA r : Add(r["total_expenses"], r["total_pos"]))
      fin4 == WithColumn(fin3, "budget_variance",
                LAMBDA r : Sub(r["budget_aed"], r["total_actuals"]))
  IN WithColumn(fin4, "budget_utilization_pct",
       LAMBDA r : Scale(Div(r["total_actuals"], r["budget_aed"]), 100))

\* Section 1 of perform_eda, the financial-health table.
FinHealthEda(d) ==
  LET proj_expenses == GroupSum(d["expenses"], "project_id", "amount_aed",
                                "total_expenses")
      proj_pos == GroupSum(d["purchase_orders"], "project_id", "amount_aed",
                           "total_pos")
      fin0 == Project(d["projects"], {"project_id", "project_name",
                                      "budget_aed", "status", "type"})
      fin1 == FillNaTable(MergeLeft(fin0, proj_expenses, "project_id"))
      fin2 == FillNaTable(MergeLeft(fin1, proj_pos, "project_id"))
      fin3 == WithColumn(fin2, "total_actuals",
                LAMBDA r : Add(r["total_expenses"], r["total_pos"]))
      fin4 == WithColumn(fin3, "budget_variance",
                LAMBDA r : Sub(r["budget_aed"], r["total_actuals"]))
  IN WithColumn(fin4, "budget_utilization_pct",
       LAMBDA r : Scale(Div(r["total_actuals"], r["budget_aed"]), 100))

\* Section 3: the hours per employee joined with the employees' names.
TopLoggers(d) ==
  MergeInner(GroupSum(d["timesheets"], "employee_id", "hours_logged",
                      "hours_logged"),
             Project(d["employees"], {"employee_id", "full_name"}),
             "employee_id")

\* Section 5: the spend per vendor joined with the vendors' names.
VendorSpend(d) ==
  MergeInner(GroupSum(d["purchase_orders"], "vendor_id", "amount_aed",
                      "amount_aed"),
             Project(d["vendors"], {"vendor_id", "vendor_name", "category"}),
             "vendor_id")

\* The steps of perform_eda in program order.  A step is a stretch of a
\* section that ends with what it prints: section 3 prints the salaries
\* before it builds the hours per employee, section 6 has two ifs.  A step
\* has the tables its section waits for, the columns it reads and what it
\* computes.
EdaSections == 1..8

EdaSecTables(i) ==
  CASE i = 1 -> {"projects", "expenses", "purchase_orders"}
    [] i = 2 -> {"projects", "clients"}
    [] i = 3 -> {"employees", "timesheets"}
    [] i = 4 -> {"employees", "timesheets"}
    [] i = 5 -> {"risks", "projects"}
    [] i = 6 -> {"purchase_orders", "vendors"}
    [] i = 7 -> {"tasks"}
    [] i = 8 -> {"timesheets"}

EdaSecNeed(i) ==
  CASE i = 1 -> {<<"expenses", "project_id">>, <<"expenses", "amount_aed">>,
                 <<"purchase_orders", "project_id">>,
                 <<"purchase_orders", "amount_aed">>,
                 <<"projects", "project_id">>, <<"projects", "project_name">>,
                 <<"projects", "budget_aed">>, <<"projects", "status">>,
                 <<"projects", "type">>}
    [] i = 2 -> {<<"projects", "client_id">>, <<"clients", "client_id">>,
                 <<"clients", "industry">>, <<"projects", "budget_aed">>}
    [] i = 3 -> {<<"employees", "department">>, <<"employees", "salary_aed">>}
    [] i = 4 -> {<<"timesheets", "employee_id">>,
                 <<"timesheets", "hours_logged">>,
                 <<"employees", "employee_id">>, <<"employees", "full_name">>}
    [] i = 5 -> {<<"risks", "project_id">>, <<"projects", "project_id">>,
                 <<"risks", "impact">>, <<"projects", "type">>}
    [] i = 6 -> {<<"purchase_orders", "vendor_id">>,
                 <<"purchase_orders", "amount_aed">>,
                 <<"vendors", "vendor_id">>, <<"vendors", "vendor_name">>,
                 <<"vendors", "category">>}
    [] i = 7 -> {<<"tasks", "status">>}
    [] i = 8 -> {<<"timesheets", "is_billable">>,
                 <<"timesheets", "hours_logged">>}

\* The number of rows of the listings perform_eda prints.
TopOverBudget == 5
TopLoggersShown == 5
TopVendorsShown == 5

\* The listings of the projects over budget that section 1 may print.
OverBudget(fin) ==
  SortHead(WhereNegative(fin, "budget_variance"), "budget_variance", TRUE,
           TopOverBudget)

\* What step i may compute and print: a sort_values leaves equal values in
\* any order.
EdaSecOut(i, d) ==
  CASE i = 1 ->
         {[fin_df |-> FinHealthEda(d),
           over_budget |-> t,
           status_utilization |->
             GroupMean(FinHealthEda(d), "status", "budget_utilization_pct")] :
            t \in OverBudget(FinHealthEda(d))}
    [] i = 2 ->
         {[revenue_by_industry |-> t] :
            t \in SortAll(GroupSum(MergeLeft(d["projects"], d["clients"],
                                             "client_id"),
                                   "industry", "budget_aed", "budget_aed"),
                          "budget_aed", FALSE)}
    [] i = 3 ->
         {[salary_by_department |-> t] :
            t \in SortAll(GroupMean(d["employees"], "department",
                                    "salary_aed"),
                          "salary_aed", FALSE)}
    [] i = 4 ->
         {[top_loggers |-> TopLoggers(d), top_loggers_shown |-> t] :
            t \in SortHead(TopLoggers(d), "hours_logged", FALSE,
                           TopLoggersShown)}
    [] i = 6 ->
         {[vendor_spend |-> VendorSpend(d), vendor_spend_shown |-> t] :
            t \in SortHead(VendorSpend(d), "amount_aed", FALSE,
                           TopVendorsShown)}
    [] i = 8 ->
         {[billable_hours |->
             GroupSum(d["timesheets"], "is_billable", "hours_logged",
                      "hours_logged")]}
    [] OTHER -> {NoOut}

EdaSecRuns(i, d) == EdaSecTables(i) \subseteq DOMAIN d

\* The columns step i has read when it calls merge.
EdaSecMergeNeed(i) ==
  CASE i = 2 -> {<<"projects", "client_id">>, <<"clients", "client_id">>}
    [] i = 5 -> {<<"risks", "project_id">>, <<"projects", "project_id">>}
    [] i \in {1, 4, 6} -> EdaSecNeed(i)
    [] OTHER -> {}

\* Whether a merge of step i raises ValueError for its keys' dtypes: the
\* left frame is a table or its group sums, the right one likewise.
EdaMergeRaises(i, d) ==
  CASE i = 1 ->
         \/ MergeRaises(KeyDtype(d["projects"], "project_id"),
                        NRows(d["projects"]),
                        KeyDtype(d["expenses"], "project_id"),
                        Len(GroupKeys(d["expenses"], "project_id")))
         \/ MergeRaises(KeyDtype(d["projects"], "project_id"),
                        NRows(d["projects"]),
                        KeyDtype(d["purchase_orders"], "project_id"),
                        Len(GroupKeys(d["purchase_orders"], "project_id")))
    [] i = 2 ->
         MergeRaises(KeyDtype(d["projects"], "client_id"),
                     NRows(d["projects"]),
                     KeyDtype(d["clients"], "client_id"),
                     NRows(d["clients"]))
    [] i = 4 ->
         MergeRaises(KeyDtype(d["timesheets"], "employee_id"),
                     Len(GroupKeys(d["timesheets"], "employee_id")),
                     KeyDtype(d["employees"], "employee_id"),
                     NRows(d["employees"]))
    [] i = 5 ->
         MergeRaises(KeyDtype(d["risks"], "project_id"), NRows(d["risks"]),
                     KeyDtype(d["projects"], "project_id"),
                     NRows(d["projects"]))
    [] i = 6 ->
         MergeRaises(KeyDtype(d["purchase_orders"], "vendor_id"),
                     Len(GroupKeys(d["purchase_orders"], "vendor_id")),
                     KeyDtype(d["vendors"], "vendor_id"),
                     NRows(d["vendors"]))
    [] OTHER -> FALSE

\* The exception step i raises, "" if none: KeyError for a column pandas
\* does not find, ValueError from merge.
EdaSecFault(i, d) ==
  IF ~HasCols(d, EdaSecMergeNeed(i)) THEN "KeyError"
  ELSE IF EdaMergeRaises(i, d) THEN "ValueError"
  ELSE IF ~HasCols(d, EdaSecNeed(i)) THEN "KeyError"
  ELSE ""

\* The first step that raises, 9 if none does.
EdaFailAt(d) ==
  LET bad == {i \in EdaSections :
                EdaSecRuns(i, d) /\ EdaSecFault(i, d) # ""}
  IN IF bad = {} THEN 9 ELSE CHOOSE i \in bad : \A j \in bad : i <= j

\* What the steps i .. stop - 1 may print.
RECURSIVE EdaOutputs(_, _, _)
EdaOutputs(d, i, stop) ==
  IF i >= stop THEN {NoOut}
  ELSE IF ~EdaSecRuns(i, d) THEN EdaOutputs(d, i + 1, stop)
  ELSE {x @@ y : x \in EdaSecOut(i, d), y \in EdaOutputs(d, i + 1, stop)}

\* What perform_eda may have printed when it ends: the steps before the
\* failing one.
EdaOutcomes(d) == EdaOutputs(d, 1, EdaFailAt(d))

PerformEda ==
  /\ prog = "eda" /\ pc = "etl"
  /\ out' \in EdaOutcomes(dfs)
  /\ err' = IF EdaFailAt(dfs) = 9 THEN ""
            ELSE EdaSecFault(EdaFailAt(dfs), dfs)
  /\ pc' = IF EdaFailAt(dfs) = 9 THEN "done" ELSE "aborted"
  /\ UNCHANGED <<files, prog, dfs, warned, app>>

(***************************************************************************)
(* generate_report.py                                                      *)
(***************************************************************************)
load_and_clean(fs) ==
  ConvertNumeric(LoadedFrom(fs, ReportTables), ReportNumericCols)

LoadAndClean ==
  /\ prog = "report" /\ pc = "start"
  /\ LET r == load_and_clean(files)
     IN /\ dfs' = r.dfs
        /\ err' = r.err
        /\ pc' = IF r.err = "" THEN "cleaned" ELSE "aborted"
  /\ UNCHANGED <<files, prog, warned, out, app>>

\* The steps of generate_html_report in program order: the financial
\* table, the KPIs, then one step per chart.  A step indexes dfs with its
\* tables and reads its columns.
ReportSteps == 1..7

ReportNeedTables(i) ==
  CASE i = 1 -> {"projects", "expenses", "purchase_orders"}
    [] i = 4 -> {"clients"}
    [] i = 5 -> {"tasks"}
    [] i = 6 -> {"employees"}
    [] i = 7 -> {"risks"}
    [] OTHER -> {}

ReportNeed(i) ==
  CASE i = 1 -> {<<"expenses", "project_id">>, <<"expenses", "amount_aed">>,
                 <<"purchase_orders", "project_id">>,
                 <<"purchase_orders", "amount_aed">>,
                 <<"projects", "project_id">>}
    [] i = 2 -> {<<"projects", "budget_aed">>,
                 <<"projects", "completion_percentage">>}
    [] i = 3 -> {<<"projects", "project_name">>}
    [] i = 4 -> {<<"projects", "client_id">>, <<"clients", "client_id">>,
                 <<"clients", "industry">>}
    [] i = 5 -> {<<"tasks", "status">>}
    [] i = 6 -> {<<"employees", "department">>, <<"employees", "salary_aed">>}
    [] i = 7 -> {<<"risks", "impact">>}

\* The financial table of the report without its fillna(0): a project
\* without expenses or purchase orders keeps absent totals.
FinHealthReport_NoFill(d) ==
  LET exp_sum == GroupSum(d["expenses"], "project_id", "amount_aed",
                          "total_expenses")
      po_sum == GroupSum(d["purchase_orders"], "project_id", "amount_aed",
                         "total_pos")
      fin == MergeLeft(MergeLeft(d["projects"], exp_sum, "project_id"),
                       po_sum, "project_id")
  IN WithColumn(fin, "total_actuals",
       LAMBDA r : Add(r["total_expenses"], r["total_pos"]))

\* The financial table of the report: both joins, then one fillna(0).
FinHealthReport(d) ==
  LET exp_sum == GroupSum(d["expenses"], "project_id", "amount_aed",
                          "total_expenses")
      po_sum == GroupSum(d["purchase_orders"], "project_id", "amount_aed",
                         "total_pos")
      fin == FillNaTable(MergeLeft(MergeLeft(d["projects"], exp_sum,
                                             "project_id"),
                                   po_sum, "project_id"))
  IN WithColumn(fin, "total_actuals",
       LAMBDA r : Add(r["total_expenses"], r["total_pos"]))

\* The number of bars of the chart Budget vs Actual Spend.
TopProjects == 10

\* What the report may show: top_projects is what nlargest returns, and
\* sal_dept is sorted by salary, equal salaries in any order.
ReportOutputs(d) ==
  {[fin_df |-> FinHealthReport(d),
    top_projects |-> tp,
    total_budget |-> SumCells(Column(FinHealthReport(d), "budget_aed")),
    total_spend |-> SumCells(Column(FinHealthReport(d), "total_actuals")),
    avg_completion |->
      MeanCells(Column(FinHealthReport(d), "completion_percentage")),
    ind_data |->
      GroupSum(MergeLeft(d["projects"], d["clients"], "client_id"),
               "industry", "budget_aed", "budget_aed"),
    sal_dept |-> t] :
     tp \in NLargest(FinHealthReport(d), TopProjects, "budget_aed"),
     t \in SortAll(GroupMean(d["employees"], "department", "salary_aed"),
                   "salary_aed", TRUE)}

\* The columns step i has read when it calls merge.
ReportMergeNeed(i) ==
  CASE i = 1 -> ReportNeed(i)
    [] i = 4 -> {<<"projects", "client_id">>, <<"clients", "client_id">>}
    [] OTHER -> {}

\* Whether a merge of step i raises ValueError for its keys' dtypes.
ReportMergeRaises(i, d) ==
  CASE i = 1 ->
         \/ MergeRaises(KeyDtype(d["projects"], "project_id"),
                        NRows(d["projects"]),
                        KeyDtype(d["expenses"], "project_id"),
                        Len(GroupKeys(d["expenses"], "project_id")))
         \/ MergeRaises(KeyDtype(d["projects"], "project_id"),
                        NRows(d["projects"]),
                        KeyDtype(d["purchase_orders"], "project_id"),
                        Len(GroupKeys(d["purchase_orders"], "project_id")))
    [] i = 4 ->
         MergeRaises(KeyDtype(d["projects"], "client_id"),
                     NRows(d["projects"]),
                     KeyDtype(d["clients"], "client_id"),
                     NRows(d["clients"]))
    [] OTHER -> FALSE

\* The exception step i raises, "" if none: KeyError for a table or column
\* pandas does not find, ValueError from merge, TypeError for the mean of a
\* text column, and plotly's ValueError for a column the bar chart is told
\* to draw and does not find.
ReportFault(i, d) ==
  IF ~(ReportNeedTables(i) \subseteq DOMAIN d) THEN "KeyError"
  ELSE IF ~HasCols(d, ReportMergeNeed(i)) THEN "KeyError"
  ELSE IF ReportMergeRaises(i, d) THEN "ValueError"
  ELSE IF ~HasCols(d, ReportNeed(i))
  THEN (IF i = 3 THEN "ValueError" ELSE "KeyError")
  ELSE IF i = 2 /\ TextCells(Column(d["projects"], "completion_percentage"))
  THEN "TypeError"
  ELSE ""

RECURSIVE ReportFailure(_, _)
ReportFailure(i, d) ==
  IF i \notin ReportSteps THEN ""
  ELSE IF ReportFault(i, d) # "" THEN ReportFault(i, d)
  ELSE ReportFailure(i + 1, d)

\* The report is written at the end: an exception on the way leaves nothing.
ReportFails(d) == ReportFailure(1, d) # ""

GenerateHtmlReport ==
  /\ prog = "report" /\ pc = "cleaned"
  /\ IF ReportFails(dfs) THEN out' = NoOut ELSE out' \in ReportOutputs(dfs)
  /\ err' = ReportFailure(1, dfs)
  /\ pc' = IF ReportFails(dfs) THEN "aborted" ELSE "done"
  /\ UNCHANGED <<files, prog, dfs, warned, app>>

(***************************************************************************)
(* app.py: every user interaction re-runs the script, which calls the      *)
(* cached load_data and renders the selected view.                         *)
(***************************************************************************)
AppTables == {"projects", "employees", "tasks", "clients", "expenses",
              "timesheets", "vendors", "risks", "milestones",
              "purchase_orders"}

\* The date conversions of the dashboard's load_data.
AppDateCols ==
  {<<"projects", "start_date">>, <<"projects", "end_date">>,
   <<"expenses", "date">>, <<"timesheets", "date">>,
   <<"milestones", "planned_start">>, <<"milestones", "planned_end">>}

Pages == {"Executive Overview", "Project Analytics", "Financial Insights",
          "Resource Management", "Risk & Compliance", "Vendor Analysis"}

\* The radio's first option is selected when the session starts.
FirstPage == "Executive Overview"

NoCache == [n \in {} |-> NA]

\* The body of load_data: pd.read_csv raises FileNotFoundError for a file
\* that does not exist.
AppLoadFails(fs) == ~(AppTables \subseteq DOMAIN fs)

AppLoadBody(fs) == ConvertDates(LoadedFrom(fs, AppTables), AppDateCols)

CountWhere(t, c, x) ==
  LET Hit(r) == r[c] = Str(x) IN Len(SelectSeq(t.rows, Hit))

\* Series.dt.to_period('M').astype(str) on one cell.
MonthText(c) ==
  IF c.k = "date" /\ c.v \div 100 = 202601 THEN Str("2026-01")
  ELSE IF c.k = "date" /\ c.v \div 100 = 202602 THEN Str("2026-02")
  ELSE Str("NaT")

\* x / y * 100 if y > 0 else 0, on two finite numbers.
GuardedPct(x, y) == IF y.v > 0 THEN Scale(Div(x, y), 100) ELSE Num(0)

\* A view is a sequence of blocks in program order, each a stretch of the
\* view that reads columns and then puts metrics or a chart on the page;
\* AppBlocks is their number.
AppBlocks(p) ==
  CASE p = "Executive Overview" -> 5
    [] p = "Project Analytics" -> 8
    [] p = "Financial Insights" -> 9
    [] p = "Resource Management" -> 7
    [] p = "Risk & Compliance" -> 6
    [] p = "Vendor Analysis" -> 5

\* The columns block i of view p reads.
AppBlockNeed(p, i) ==
  CASE p = "Executive Overview" ->
         (CASE i = 1 -> {<<"projects", "budget_aed">>,
                         <<"projects", "status">>, <<"tasks", "status">>}
            [] i = 2 -> {<<"projects", "status">>}
            [] i = 3 -> {<<"projects", "type">>}
            [] i = 4 -> {<<"projects", "type">>, <<"projects", "budget_aed">>}
            [] i = 5 -> {<<"projects", "location">>})
    [] p = "Project Analytics" ->
         (CASE i = 1 -> {<<"projects", "type">>, <<"projects", "status">>,
                         <<"projects", "priority">>}
            [] i = 2 -> {}
            [] i = 3 -> {<<"projects", "budget_aed">>}
            [] i = 4 -> {<<"projects", "completion_percentage">>}
            [] i = 5 -> {<<"projects", "status">>}
            [] i = 6 -> {<<"projects", "completion_percentage">>}
            [] i = 7 -> {<<"projects", "budget_aed">>,
                         <<"projects", "completion_percentage">>,
                         <<"projects", "status">>,
                         <<"projects", "project_name">>}
            [] i = 8 -> {<<"projects", "project_id">>,
                         <<"projects", "project_name">>,
                         <<"projects", "type">>, <<"projects", "status">>,
                         <<"projects", "completion_percentage">>,
                         <<"projects", "budget_aed">>,
                         <<"projects", "priority">>})
    [] p = "Financial Insights" ->
         (CASE i = 1 -> {<<"expenses", "amount_aed">>,
                         <<"purchase_orders", "amount_aed">>,
                         <<"projects", "budget_aed">>}
            [] i \in 2..5 -> {}
            [] i = 6 -> {<<"expenses", "category">>,
                         <<"expenses", "amount_aed">>}
            [] i = 7 -> {<<"expenses", "date">>, <<"expenses", "amount_aed">>}
            [] i = 8 -> {<<"purchase_orders", "status">>,
                         <<"purchase_orders", "amount_aed">>}
            [] i = 9 -> {<<"expenses", "project_id">>,
                         <<"expenses", "amount_aed">>,
                         <<"projects", "project_id">>,
                         <<"projects", "project_name">>})
    [] p = "Resource Management" ->
         (CASE i = 1 -> {<<"employees", "department">>,
                         <<"employees", "salary_aed">>}
            [] i = 2 -> {}
            [] i = 3 -> {<<"timesheets", "hours_logged">>}
            [] i = 4 -> {<<"employees", "department">>}
            [] i = 5 -> {<<"employees", "nationality">>}
            [] i = 6 -> {<<"timesheets", "is_billable">>,
                         <<"timesheets", "hours_logged">>}
            [] i = 7 -> {<<"timesheets", "status">>,
                         <<"timesheets", "hours_logged">>})
    [] p = "Risk & Compliance" ->
         (CASE i = 1 -> {<<"risks", "impact">>}
            [] i = 2 -> {}
            [] i = 3 -> {<<"risks", "status">>}
            [] i = 4 -> {<<"risks", "impact">>}
            [] i = 5 -> {<<"risks", "project_id">>,
                         <<"projects", "project_id">>,
                         <<"projects", "project_name">>}
            [] i = 6 -> {<<"milestones", "status">>})
    [] p = "Vendor Analysis" ->
         (CASE i = 1 -> {<<"purchase_orders", "amount_aed">>}
            [] i = 2 -> {}
            [] i = 3 -> {<<"vendors", "category">>}
            [] i = 4 -> {<<"vendors", "location">>}
            [] i = 5 -> {<<"purchase_orders", "vendor_id">>,
                         <<"purchase_orders", "amount_aed">>,
                         <<"vendors", "vendor_id">>,
                         <<"vendors", "vendor_name">>})

\* The multiselects' default: nothing selected.
NoSel == [type |-> {}, status |-> {}, priority |-> {}]

\* Series.unique(): the options of a multiselect.
Unique(t, c) == {t.rows[i][c] : i \in 1..Len(t.rows)}

\* The filter without its test for an empty selection: df[df[c].isin(chosen)]
\* always.
WhereIn_Always(t, c, chosen) ==
  LET In(r) == r[c] \in chosen
  IN [cols |-> t.cols, rows |-> SelectSeq(t.rows, In)]

\* df[df[c].isin(chosen)] if chosen is not empty, df otherwise.
WhereIn(t, c, chosen) ==
  LET In(r) == r[c] \in chosen
  IN IF chosen = {} THEN t
     ELSE [cols |-> t.cols, rows |-> SelectSeq(t.rows, In)]

\* filtered_projects: a copy of projects, filtered by type, then by
\* status, then by priority.
FilterProjects(t, s) ==
  WhereIn(WhereIn(WhereIn(t, "type", s.type), "status", s.status),
          "priority", s.priority)

\* Financial Insights adds the column month to the run's expenses table.
WithMonth(t) == WithColumn(t, "month", LAMBDA r : MonthText(r["date"]))

\* Series.nunique(): the number of distinct values that are not NaN.
NUnique(t, c) == Cardinality(Unique(t, c) \ {NA})

\* x[:n] on a text.
Prefix(c, n) == IF Len(c.s) <= n THEN c ELSE Str(SubSeq(c.s, 1, n))

\* names.get(x, x) with names = parent.set_index(id)[name]: the name of the
\* parent row whose id is x, x itself if there is none.
NameOf(parent, id, name, x) ==
  IF \E i \in 1..Len(parent.rows) : parent.rows[i][id] = x
  THEN parent.rows[CHOOSE i \in 1..Len(parent.rows) :
                     parent.rows[i][id] = x][name]
  ELSE x

\* series.index = series.index.map(lambda x: names.get(x, x)[:n]): the key
\* column of a grouped table relabelled with the parent's names.
Relabel(t, key, parent, id, name, n) ==
  [cols |-> t.cols,
   rows |-> [i \in 1..Len(t.rows) |->
              [x \in t.cols |->
                 IF x = key
                 THEN Prefix(NameOf(parent, id, name, t.rows[i][x]), n)
                 ELSE t.rows[i][x]]]]

\* The number of bars of the top-10 charts, and the length their labels
\* are cut to.
TopProjExp == 10
TopVendorPo == 10
ProjLabelLen == 25
VendorLabelLen == 30

\* The columns of the table Project Details.
DisplayCols == {"project_id", "project_name", "type", "status",
                "completion_percentage", "budget_aed", "priority"}

\* What block i of view p may compute and put on the page, given the run's
\* tables d and the selections s: a sort_values leaves equal values in any
\* order.
AppBlockOut(p, i, d, s) ==
  CASE p = "Executive Overview" /\ i = 1 ->
         {[total_budget |-> SumCells(Column(d["projects"], "budget_aed")),
           active_projects |->
             Num(CountWhere(d["projects"], "status", "In Progress")),
           total_employees |-> Num(NRows(d["employees"])),
           total_tasks |-> Num(NRows(d["tasks"])),
           completed_tasks |->
             Num(CountWhere(d["tasks"], "status", "Completed")),
           completion_rate |->
             GuardedPct(Num(CountWhere(d["tasks"], "status", "Completed")),
                        Num(NRows(d["tasks"])))]}
    [] p = "Executive Overview" /\ i = 4 ->
         {[type_budget |-> t] :
            t \in SortAll(GroupSum(d["projects"], "type", "budget_aed",
                                   "budget_aed"),
                          "budget_aed", TRUE)}
    [] p = "Project Analytics" /\ i = 2 ->
         {[filtered_projects |-> FilterProjects(d["projects"], s),
           n_projects |-> Num(NRows(FilterProjects(d["projects"], s)))]}
    [] p = "Project Analytics" /\ i = 3 ->
         {[total_budget |->
             SumCells(Column(FilterProjects(d["projects"], s),
                             "budget_aed"))]}
    [] p = "Project Analytics" /\ i = 4 ->
         {[avg_progress |->
             MeanCells(Column(FilterProjects(d["projects"], s),
                              "completion_percentage"))]}
    [] p = "Project Analytics" /\ i = 5 ->
         {[completed |->
             Num(CountWhere(FilterProjects(d["projects"], s), "status",
                            "Completed"))]}
    [] p = "Project Analytics" /\ i = 8 ->
         {[project_table |-> t] :
            t \in SortAll(Project(FilterProjects(d["projects"], s),
                                  DisplayCols),
                          "budget_aed", FALSE)}
    [] p = "Financial Insights" /\ i = 2 ->
         {[total_expenses |-> SumCells(Column(d["expenses"], "amount_aed"))]}
    [] p = "Financial Insights" /\ i = 3 ->
         {[total_po_value |->
             SumCells(Column(d["purchase_orders"], "amount_aed"))]}
    [] p = "Financial Insights" /\ i = 4 ->
         {[total_budget |-> SumCells(Column(d["projects"], "budget_aed"))]}
    [] p = "Financial Insights" /\ i = 5 ->
         {[utilization |->
             GuardedPct(SumCells(Column(d["expenses"], "amount_aed")),
                        SumCells(Column(d["projects"], "budget_aed")))]}
    [] p = "Financial Insights" /\ i = 6 ->
         {[exp_by_cat |-> t] :
            t \in SortAll(GroupSum(d["expenses"], "category", "amount_aed",
                                   "amount_aed"),
                          "amount_aed", FALSE)}
    [] p = "Financial Insights" /\ i = 7 ->
         {[monthly_exp |->
             GroupSum(WithMonth(d["expenses"]), "month", "amount_aed",
                      "amount_aed")]}
    [] p = "Financial Insights" /\ i = 8 ->
         {[po_status |->
             GroupSum(d["purchase_orders"], "status", "amount_aed",
                      "amount_aed")]}
    [] p = "Financial Insights" /\ i = 9 ->
         {[proj_exp |->
             Relabel(t, "project_id", d["projects"], "project_id",
                     "project_name", ProjLabelLen)] :
            t \in SortHead(GroupSum(d["expenses"], "project_id",
                                    "amount_aed", "amount_aed"),
                           "amount_aed", FALSE, TopProjExp)}
    [] p = "Resource Management" /\ i = 2 ->
         {[total_emp |-> Num(NRows(d["employees"])),
           dept_count |-> Num(NUnique(d["employees"], "department")),
           avg_salary |-> MeanCells(Column(d["employees"], "salary_aed"))]}
    [] p = "Resource Management" /\ i = 3 ->
         {[total_hours |->
             SumCells(Column(d["timesheets"], "hours_logged"))]}
    [] p = "Resource Management" /\ i = 6 ->
         {[billable |->
             GroupSum(d["timesheets"], "is_billable", "hours_logged",
                      "hours_logged")]}
    [] p = "Resource Management" /\ i = 7 ->
         {[hours_by_status |-> t] :
            t \in SortAll(GroupSum(d["timesheets"], "status", "hours_logged",
                                   "hours_logged"),
                          "hours_logged", FALSE)}
    [] p = "Risk & Compliance" /\ i = 2 ->
         {[total_risks |-> Num(NRows(d["risks"])),
           critical_risks |-> Num(CountWhere(d["risks"], "impact",
                                             "Critical")),
           high_risks |-> Num(CountWhere(d["risks"], "impact", "High"))]}
    [] p = "Risk & Compliance" /\ i = 3 ->
         {[active_risks |-> Num(CountWhere(d["risks"], "status", "Active"))]}
    [] p = "Vendor Analysis" /\ i = 2 ->
         {[total_vendors |-> Num(NRows(d["vendors"])),
           total_po_value |->
             SumCells(Column(d["purchase_orders"], "amount_aed")),
           avg_po |-> MeanCells(Column(d["purchase_orders"], "amount_aed")),
           po_count |-> Num(NRows(d["purchase_orders"]))]}
    [] p = "Vendor Analysis" /\ i = 5 ->
         {[vendor_po |->
             Relabel(t, "vendor_id", d["vendors"], "vendor_id",
                     "vendor_name", VendorLabelLen)] :
            t \in SortHead(GroupSum(d["purchase_orders"], "vendor_id",
                                    "amount_aed", "amount_aed"),
                           "amount_aed", FALSE, TopVendorPo)}
    [] OTHER -> {NoOut}

\* Whether column c of table n of the run is text: its sum or mean is no
\* number, and dividing or formatting it raises.
TextColumn(d, n, c) == TextCells(Column(d[n], c))

\* A marker size plotly refuses: NaN or a negative number.
BadSize(c) == c.k = "na" \/ (c.k = "num" /\ c.v < 0)

\* The exception block i of view p raises, "" if none.  KeyError: a column
\* pandas does not find.  TypeError: a text sum divided, or the sum or mean
\* of a text column that pandas cannot add up.  ValueError: a text sum
\* formatted as a number, a column plotly express is told to draw and does
\* not find, or a marker size plotly refuses.
AppBlockFault(p, i, d, s) ==
  IF ~HasCols(d, AppBlockNeed(p, i))
  THEN (IF p = "Project Analytics" /\ i = 7 THEN "ValueError"
        ELSE "KeyError")
  ELSE CASE p = "Executive Overview" /\ i = 1 ->
              IF TextColumn(d, "projects", "budget_aed") THEN "TypeError"
              ELSE ""
         [] p = "Project Analytics" /\ i = 3 ->
              IF TextCells(Column(FilterProjects(d["projects"], s),
                                  "budget_aed"))
              THEN "TypeError" ELSE ""
         [] p = "Project Analytics" /\ i = 4 ->
              IF TextCells(Column(FilterProjects(d["projects"], s),
                                  "completion_percentage"))
              THEN "TypeError" ELSE ""
         [] p = "Project Analytics" /\ i = 7 ->
              IF \E j \in 1..NRows(FilterProjects(d["projects"], s)) :
                   BadSize(FilterProjects(d["projects"], s).rows[j]
                             ["budget_aed"])
              THEN "ValueError" ELSE ""
         [] p = "Financial Insights" /\ i = 1 ->
              IF \/ SumRaises(Column(d["expenses"], "amount_aed"))
                 \/ SumRaises(Column(d["purchase_orders"], "amount_aed"))
                 \/ SumRaises(Column(d["projects"], "budget_aed"))
              THEN "TypeError" ELSE ""
         [] p = "Financial Insights" /\ i = 2 ->
              IF TextColumn(d, "expenses", "amount_aed") THEN "TypeError"
              ELSE ""
         [] p = "Financial Insights" /\ i = 3 ->
              IF TextColumn(d, "purchase_orders", "amount_aed")
              THEN "TypeError" ELSE ""
         [] p = "Financial Insights" /\ i = 4 ->
              IF TextColumn(d, "projects", "budget_aed") THEN "TypeError"
              ELSE ""
         [] p = "Resource Management" /\ i = 1 ->
              IF TextColumn(d, "employees", "salary_aed") THEN "TypeError"
              ELSE ""
         [] p = "Resource Management" /\ i = 3 ->
              IF SumRaises(Column(d["timesheets"], "hours_logged"))
              THEN "TypeError"
              ELSE IF TextColumn(d, "timesheets", "hours_logged")
              THEN "ValueError"
              ELSE ""
         [] p = "Vendor Analysis" /\ i = 1 ->
              IF TextColumn(d, "purchase_orders", "amount_aed")
              THEN "TypeError" ELSE ""
         [] OTHER -> ""

\* The first block from i on that raises, AppBlocks(p) + 1 if none.
RECURSIVE AppFailFrom(_, _, _, _)
AppFailFrom(p, i, d, s) ==
  IF i > AppBlocks(p) THEN i
  ELSE IF AppBlockFault(p, i, d, s) # "" THEN i
  ELSE AppFailFrom(p, i + 1, d, s)

AppFailAt(p, d, s) == AppFailFrom(p, 1, d, s)

\* What may be on the page after the blocks i .. stop - 1.
RECURSIVE AppOutputs(_, _, _, _, _)
AppOutputs(p, d, s, i, stop) ==
  IF i >= stop THEN {NoOut}
  ELSE {x @@ y : x \in AppBlockOut(p, i, d, s),
                 y \in AppOutputs(p, d, s, i + 1, stop)}

\* The run's tables when the run ends: block 7 of Financial Insights
\* assigns data['expenses']['month'].
AppDataAfter(p, d, s) ==
  IF p = "Financial Insights" /\ AppFailAt(p, d, s) > 7
  THEN [d EXCEPT !["expenses"] = WithMonth(d["expenses"])]
  ELSE d

\* What may be on the page when the run ends: the blocks before the
\* failing one.
AppOutcomes(p, d, s) == AppOutputs(p, d, s, 1, AppFailAt(p, d, s))

\* The options a multiselect of Project Analytics offers.  The three are
\* drawn one after the other, each from its column c: one whose column, or
\* an earlier one's, is missing is not drawn and returns nothing.
FilterOptions(d, c, earlier) ==
  IF earlier \cup {c} \subseteq d["projects"].cols
  THEN SUBSET Unique(d["projects"], c)
  ELSE {{}}

\* What the multiselects return in a run of view p that follows a run of
\* view from, kept being the state the session holds for them: any of
\* their options when they were on screen, the state held when the view is
\* entered.  Another view draws none of them.
AppSelections(p, d, from, kept) ==
  IF p # "Project Analytics" THEN {NoSel}
  ELSE IF from = p
  THEN [type : FilterOptions(d, "type", {}),
        status : FilterOptions(d, "status", {"type"}),
        priority : FilterOptions(d, "priority", {"type", "status"})]
  ELSE {kept}

\* Bound on the executions of load_data's body (it runs again after every
\* failed load).
MaxLoads == 2

\* A cache that never holds what load_data returned.
CacheHit_Never(c) == FALSE

\* st.cache_data: whether the call of load_data is answered from the
\* cache.  The entry has no ttl and nothing clears it.
CacheHit(c) == c # NoCache

\* One run of the script with view p selected.  load_data returns a copy of
\* the cached value, or runs its body and caches what it returns; an
\* exception is not cached.  The sidebar is drawn after load_data has
\* returned: until then the radio holds its first option.  The state of a
\* multiselect the run has not drawn is dropped when the run ends normally,
\* and stays when an exception ends it.
AppRun(p) ==
  /\ prog = "app"
  /\ (pc = "start" \/ err = "FileNotFoundError") => p = FirstPage
  /\ ~CacheHit(cache) => loads < MaxLoads
  /\ page' = p
  /\ loads' = IF CacheHit(cache) THEN loads ELSE loads + 1
  /\ IF ~CacheHit(cache) /\ AppLoadFails(files)
     THEN /\ cache' = cache
          /\ dfs' = NoOut
          /\ out' = NoOut
          /\ sel' = NoSel
          /\ err' = "FileNotFoundError"
          /\ pc' = "faulted"
     ELSE LET data == IF CacheHit(cache) THEN cache ELSE AppLoadBody(files)
          IN /\ cache' = data
             /\ \E s \in AppSelections(p, data, page, sel) :
                  LET stop == AppFailAt(p, data, s)
                      ok == stop > AppBlocks(p)
                  IN /\ sel' = IF p = "Project Analytics" THEN s
                               ELSE IF ok THEN NoSel
                               ELSE sel
                     /\ dfs' = AppDataAfter(p, data, s)
                     /\ out' \in AppOutcomes(p, data, s)
                     /\ err' = IF ok THEN ""
                               ELSE AppBlockFault(p, stop, data, s)
                     /\ pc' = IF ok THEN "shown" ELSE "faulted"
  /\ UNCHANGED <<files, prog, warned>>

(***************************************************************************)
(* The inputs: table files of a few rows.  Ids are text; the key of a      *)
(* parent table's row is fixed by its row number.                          *)
(***************************************************************************)
Table(cols, rows) == [cols |-> cols, rows |-> rows]

ProjectCols == {"project_id", "project_name", "client_id", "type", "status",
                "priority", "location", "budget_aed",
                "completion_percentage", "start_date", "end_date"}

ProjectIds == <<"P1", "P2", "P3">>
ProjectNames == <<"Project 1", "Project 2", "Project 3">>

ProjectRow(i, budget, status) ==
  [project_id |-> Str(ProjectIds[i]), project_name |-> Str(ProjectNames[i]),
   client_id |-> Str("C1"), type |-> Str("Construction"), status |-> status,
   priority |-> Str("High"), location |-> Str("Dubai"),
   budget_aed |-> budget, completion_percentage |-> Num(50),
   start_date |-> Str("2026-01-15"), end_date |-> Str("2026-02-10")]

ExpenseCols == {"project_id", "category", "amount_aed", "date"}

ExpenseRow(pid, category, amount) ==
  [project_id |-> pid, category |-> category, amount_aed |-> amount,
   date |-> Str("2026-01-15")]

PoCols == {"vendor_id", "project_id", "amount_aed", "status", "issue_date"}

PoRow(pid, vid, amount) ==
  [vendor_id |-> vid, project_id |-> pid, amount_aed |-> amount,
   status |-> Str("Approved"), issue_date |-> Str("2026-02-10")]

EmployeeCols == {"employee_id", "full_name", "department", "nationality",
                 "salary_aed", "joining_date"}

EmployeeIds == <<"E1", "E2", "E3">>
EmployeeNames == <<"Employee 1", "Employee 2", "Employee 3">>

EmployeeRow(i, salary) ==
  [employee_id |-> Str(EmployeeIds[i]), full_name |-> Str(EmployeeNames[i]),
   department |-> Str("Engineering"), nationality |-> Str("Indian"),
   salary_aed |-> salary, joining_date |-> Str("2026-01-15")]

TimesheetCols == {"employee_id", "date", "hours_logged", "is_billable",
                  "status"}

TimesheetRow(eid, hours, billable) ==
  [employee_id |-> eid, date |-> Str("2026-02-10"), hours_logged |-> hours,
   is_billable |-> billable, status |-> Str("Approved")]

VendorCols == {"vendor_id", "vendor_name", "category", "location"}

VendorIds == <<"V1", "V2", "V3">>
VendorNames == <<"Vendor 1", "Vendor 2", "Vendor 3">>

VendorRow(i) ==
  [vendor_id |-> Str(VendorIds[i]), vendor_name |-> Str(VendorNames[i]),
   category |-> Str("Materials"), location |-> Str("Dubai")]

\* The tables no claim varies: one well-formed row each.
BaseFiles ==
  [assignments |-> Table({"start_date", "end_date"},
     << [start_date |-> Str("2026-01-15"), end_date |-> Str("2026-02-10")] >>),
   clients |-> Table({"client_id", "industry"},
     << [client_id |-> Str("C1"), industry |-> Str("Real Estate")] >>),
   employees |-> Table(EmployeeCols, << EmployeeRow(1, Num(9000)) >>),
   expenses |-> Table(ExpenseCols,
     << ExpenseRow(Str("P1"), Str("Travel"), Num(50)) >>),
   milestones |-> Table({"status", "planned_start", "planned_end"},
     << [status |-> Str("Completed"), planned_start |-> Str("2026-01-15"),
         planned_end |-> Str("2026-02-10")] >>),
   projects |-> Table(ProjectCols,
     << ProjectRow(1, Num(100), Str("In Progress")) >>),
   purchase_orders |-> Table(PoCols, << PoRow(Str("P1"), Str("V1"), Num(100)) >>),
   risks |-> Table({"project_id", "impact", "status"},
     << [project_id |-> Str("P1"), impact |-> Str("High"),
         status |-> Str("Active")] >>),
   tasks |-> Table({"status", "start_date", "end_date"},
     << [status |-> Str("Completed"), start_date |-> Str("2026-01-15"),
         end_date |-> Str("2026-02-10")] >>),
   timesheets |-> Table(TimesheetCols,
     << TimesheetRow(Str("E1"), Num(8), Str("True")) >>),
   vendors |-> Table(VendorCols, << VendorRow(1) >>)]

\* Bound of the financial inputs: the rows of projects, expenses and
\* purchase_orders together.
MaxFinRows == 3

FinBudgets == {Num(0), Num(100), Num(200)}
FinStatuses == {NA, Str("Active")}
FinProjectIds == {NA, Str("P1"), Str("P2"), Str("P9")}
FinAmounts == {Num(50), Num(250)}

\* Financial inputs: every file exists; projects with zero and positive
\* budgets and absent labels, expenses and purchase orders whose
\* project_id is absent, matches a project or matches none.
InitFin ==
  \E np \in 0..MaxFinRows :
    \E ne \in 0..(MaxFinRows - np) :
      \E npo \in 0..(IF MaxFinRows - np - ne < 1
                      THEN MaxFinRows - np - ne ELSE 1) :
        \E pb \in [1..np -> FinBudgets], ps \in [1..np -> FinStatuses],
           ek \in [1..ne -> FinProjectIds], ea \in [1..ne -> FinAmounts],
           pk \in [1..npo -> FinProjectIds] :
          /\ np <= Len(ProjectIds)
          /\ files =
               [BaseFiles EXCEPT
                  !["projects"] = Table(ProjectCols,
                     [i \in 1..np |-> ProjectRow(i, pb[i], ps[i])]),
                  !["expenses"] = Table(ExpenseCols,
                     [i \in 1..ne |->
                        ExpenseRow(ek[i], Str("Travel"), ea[i])]),
                  !["purchase_orders"] = Table(PoCols,
                     [i \in 1..npo |-> PoRow(pk[i], Str("V1"), Num(100))])]
          /\ prog \in {"eda", "report"}

\* The documented scenario: budgets 100, 200, 300 and expenses summing to
\* 50, 250, 0 per project, no purchase orders.
ScenarioFiles ==
  [BaseFiles EXCEPT
     !["projects"] = Table(ProjectCols,
        << ProjectRow(1, Num(100), Str("Active")),
           ProjectRow(2, Num(200), Str("Active")),
           ProjectRow(3, Num(300), Str("Completed")) >>),
     !["expenses"] = Table(ExpenseCols,
        << ExpenseRow(Str("P1"), Str("Travel"), Num(50)),
           ExpenseRow(Str("P2"), Str("Travel"), Num(200)),
           ExpenseRow(Str("P2"), Str("Materials"), Num(50)) >>),
     !["purchase_orders"] = Table(PoCols, <<>>)]

InitScenario ==
  /\ files = ScenarioFiles
  /\ prog \in {"eda", "report", "app"}

\* File inputs: any subset of the table files exists, each with its base
\* content.
InitFiles ==
  \E present \in SUBSET EdaTables :
    /\ files = [n \in present |-> BaseFiles[n]]
    /\ prog \in {"eda", "report", "app"}

\* Bound of the column inputs: the columns missing from the files.
MaxDropped == 1

AllColumns == {<<n, c>> : n \in EdaTables, c \in ProjectCols \cup
                 ExpenseCols \cup PoCols \cup EmployeeCols \cup
                 TimesheetCols \cup VendorCols \cup
                 {"industry", "impact", "planned_start", "planned_end"}}

BaseColumns == {p \in AllColumns : p[2] \in BaseFiles[p[1]].cols}

DropColumns(fs, dropped) ==
  [n \in DOMAIN fs |->
     Project(fs[n], {c \in fs[n].cols : <<n, c>> \notin dropped})]

\* Column inputs: every file exists, some columns are missing from the
\* files' header rows.
RECURSIVE SubsetsUpTo(_, _)
SubsetsUpTo(S, n) ==
  IF n = 0 THEN {{}}
  ELSE LET smaller == SubsetsUpTo(S, n - 1)
       IN smaller \cup {d \cup {x} : d \in smaller, x \in S}

InitCols ==
  \E dropped \in SubsetsUpTo(BaseColumns, MaxDropped) :
    /\ files = DropColumns(BaseFiles, dropped)
    /\ prog \in {"eda", "report", "app"}

\* Bound of the cell inputs: the rows of the table whose cells vary.
MaxCellRows == 2

\* What a money cell of a file may hold: nothing, text that is no number,
\* a negative number, zero, a positive number.
RawNumbers == {NA, Str("abc"), Num(-100), Num(0), Num(100)}
RawHours == {NA, Num(4), Num(8)}
RawCategories == {NA, Str("Travel")}

HasText(t, c) == \E i \in 1..Len(t.rows) : t.rows[i][c].k = "str"

\* Cell inputs: every file exists and one table's money or quantity cells
\* vary.
InitCells ==
  \E n \in 0..MaxCellRows :
    \E t \in {"projects", "expenses", "purchase_orders", "employees",
              "timesheets"} :
      \E raw \in [1..n -> RawNumbers], hrs \in [1..n -> RawHours],
         cat \in [1..n -> RawCategories] :
        /\ n <= Len(ProjectIds)
        /\ t # "timesheets" => \A i \in 1..n : hrs[i] = Num(8)
        /\ t = "timesheets" => \A i \in 1..n : raw[i] = Num(100)
        /\ t # "expenses" => \A i \in 1..n : cat[i] = Str("Travel")
        /\ files =
             [BaseFiles EXCEPT
                ![t] =
                  CASE t = "projects" ->
                         Table(ProjectCols,
                           [i \in 1..n |->
                              ProjectRow(i, raw[i], Str("In Progress"))])
                    [] t = "expenses" ->
                         Table(ExpenseCols,
                           [i \in 1..n |->
                              ExpenseRow(Str("P1"), cat[i], raw[i])])
                    [] t = "purchase_orders" ->
                         Table(PoCols,
                           [i \in 1..n |->
                              PoRow(Str("P1"), Str("V1"), raw[i])])
                    [] t = "employees" ->
                         Table(EmployeeCols,
                           [i \in 1..n |-> EmployeeRow(i, raw[i])])
                    [] t = "timesheets" ->
                         Table(TimesheetCols,
                           [i \in 1..n |->
                              TimesheetRow(Str("E1"), hrs[i], Str("True"))])]
        /\ prog \in {"eda", "report", "app"}

\* Bound of the join inputs: the rows of the child table.
MaxJoinRows == 2

JoinVendorIds == {NA, Str("V1"), Str("V2"), Str("V9")}
JoinEmployeeIds == {NA, Str("E1"), Str("E2"), Str("E9")}
JoinAmounts == {Num(100), Num(300)}
JoinHours == {Num(4), Num(8)}

\* Join inputs: purchase orders against 0 to 2 vendors, or timesheet
\* entries against 0 to 2 employees; the child's foreign key is absent,
\* matches a parent row or matches none.
InitJoin ==
  \E n \in 0..MaxJoinRows, np \in 0..2 :
    \E side \in {"vendors", "employees"} :
      \E vk \in [1..n -> JoinVendorIds], va \in [1..n -> JoinAmounts],
         ek \in [1..n -> JoinEmployeeIds], eh \in [1..n -> JoinHours] :
        /\ side = "vendors" =>
             \A i \in 1..n : ek[i] = Str("E1") /\ eh[i] = Num(8)
        /\ side = "employees" =>
             \A i \in 1..n : vk[i] = Str("V1") /\ va[i] = Num(100)
        /\ files =
             IF side = "vendors"
             THEN [BaseFiles EXCEPT
                     !["purchase_orders"] = Table(PoCols,
                        [i \in 1..n |-> PoRow(Str("P1"), vk[i], va[i])]),
                     !["vendors"] = Table(VendorCols,
                        [i \in 1..np |-> VendorRow(i)])]
             ELSE [BaseFiles EXCEPT
                     !["timesheets"] = Table(TimesheetCols,
                        [i \in 1..n |->
                           TimesheetRow(ek[i], eh[i], Str("True"))]),
                     !["employees"] = Table(EmployeeCols,
                        [i \in 1..np |-> EmployeeRow(i, Num(9000))])]
        /\ prog \in {"eda", "report", "app"}

\* Bound of the date inputs: the rows of expenses.
MaxDateRows == 2

RawDates == {NA, Str("abc"), Str("2026-01-15")}
RawAmounts == {NA, Num(100)}

\* Date inputs: every file exists; the date cells of expenses are absent,
\* unreadable or readable, the amounts absent or a number.
InitDates ==
  \E n \in 0..MaxDateRows :
    \E dt \in [1..n -> RawDates], am \in [1..n -> RawAmounts] :
      /\ files =
           [BaseFiles EXCEPT
              !["expenses"] = Table(ExpenseCols,
                 [i \in 1..n |->
                    [ExpenseRow(Str("P1"), Str("Travel"), am[i])
                       EXCEPT !["date"] = dt[i]]])]
      /\ prog \in {"eda", "report", "app"}

\* Bound of the tie inputs: the projects.
MaxTieRows == 3

TieBudgets == {Num(100), Num(200)}

\* Tie inputs: every file exists; each project has one expense of 250, so
\* projects with equal budgets have equal variances and equal spends.
InitTies ==
  \E n \in 0..MaxTieRows :
    \E pb \in [1..n -> TieBudgets] :
      /\ n <= Len(ProjectIds)
      /\ files =
           [BaseFiles EXCEPT
              !["projects"] = Table(ProjectCols,
                 [i \in 1..n |-> ProjectRow(i, pb[i], Str("Active"))]),
              !["expenses"] = Table(ExpenseCols,
                 [i \in 1..n |->
                    ExpenseRow(Str(ProjectIds[i]), Str("Travel"),
                               Num(250))])]
      /\ prog \in {"eda", "report", "app"}

\* Bound of the filter inputs: the projects.
MaxFilterRows == 2

FilterTypes == {Str("Construction"), Str("Engineering")}
FilterStatuses == {Str("Active"), Str("Completed")}
FilterProgress == <<Num(40), Num(80), Num(60)>>

\* Filter inputs for the dashboard: every file exists; the projects differ
\* in type and status, so that a selection may match all of them, some of
\* them or none.
InitFilter ==
  \E n \in 0..MaxFilterRows :
    \E ty \in [1..n -> FilterTypes], st \in [1..n -> FilterStatuses] :
      /\ n <= Len(ProjectIds)
      /\ files =
           [BaseFiles EXCEPT
              !["projects"] = Table(ProjectCols,
                 [i \in 1..n |->
                    [ProjectRow(i, Num(100), st[i])
                       EXCEPT !["type"] = ty[i],
                              !["completion_percentage"] =
                                FilterProgress[i]]])]
      /\ prog = "app"

\* Bound of the task inputs: the tasks.
MaxTaskRows == 2

TaskStatuses == {Str("Completed"), Str("In Progress")}

\* Task inputs for the dashboard: every file exists; tasks has no rows, or
\* rows that are completed or not.
InitTasks ==
  \E n \in 0..MaxTaskRows :
    \E st \in [1..n -> TaskStatuses] :
      /\ files =
           [BaseFiles EXCEPT
              !["tasks"] = Table({"status", "start_date", "end_date"},
                 [i \in 1..n |->
                    [status |-> st[i], start_date |-> Str("2026-01-15"),
                     end_date |-> Str("2026-02-10")]])]
      /\ prog = "app"

Init ==
  /\ \/ InitFin
     \/ InitScenario
     \/ InitFiles
     \/ InitCols
     \/ InitCells
     \/ InitJoin
     \/ InitDates
     \/ InitTies
     \/ InitFilter
     \/ InitTasks
  /\ pc = "start"
  /\ dfs = NoOut
  /\ warned = {}
  /\ err = ""
  /\ out = NoOut
  /\ cache = NoCache
  /\ loads = 0
  /\ page = FirstPage
  /\ sel = NoSel

Next ==
  \/ EdaLoadData
  \/ EtlProcess
  \/ PerformEda
  \/ LoadAndClean
  \/ GenerateHtmlReport
  \/ \E p \in Pages : AppRun(p)

Spec == Init /\ [][Next]_vars

(***************************************************************************)
(* Properties.                                                             *)
(***************************************************************************)
\* The finite numbers.
IsFinite(c) == c.k = "num"

\* perform_eda has printed the financial-health table.
EdaFinPrinted == prog = "eda" /\ "fin_df" \in DOMAIN out

\* etl_process has returned.
EtlDone == prog = "eda" /\ pc \in {"etl", "done"}

\* load_and_clean has returned.
CleanDone == prog = "report" /\ pc \in {"cleaned", "done"}

\* Every file exists / every column of the files is there.
AllFilesExist == DOMAIN files = EdaTables
AllColumnsExist == \A n \in DOMAIN files : files[n].cols = BaseFiles[n].cols

\* Every cell of column c of every loaded table that has the column
\* satisfies P.
AllCells(d, c, P(_)) ==
  \A n \in DOMAIN d :
    c \in d[n].cols => \A i \in 1..Len(d[n].rows) : P(d[n].rows[i][c])

\* C1: in the financial-health table of perform_eda every
\* budget_utilization_pct is a finite number, it is 0 when the project's
\* budget_aed is 0, and every per-status mean of it is a finite number.
C1_UtilizationIsDefined ==
  EdaFinPrinted =>
    /\ \A i \in 1..NRows(out.fin_df) :
         LET r == out.fin_df.rows[i]
         IN /\ IsFinite(r["budget_utilization_pct"])
            /\ r["budget_aed"] = Num(0) =>
                 r["budget_utilization_pct"] = Num(0)
    /\ \A i \in 1..NRows(out.status_utilization) :
         IsFinite(out.status_utilization.rows[i]["budget_utilization_pct"])

\* C2: once etl_process has returned, every cell of budget_aed, amount_aed,
\* salary_aed and hours_logged in every loaded table is a number.
C2_MoneyCellsAreNumbers ==
  EtlDone =>
    \A c \in {"budget_aed", "amount_aed", "salary_aed", "hours_logged"} :
      AllCells(dfs, c, IsFinite)

\* C3: whatever subset of the table files is absent (the files that exist
\* being complete), neither the batch report nor the dashboard ends a run
\* with an exception.
C3_MissingFilesNeverAbort ==
  (prog \in {"report", "app"} /\ AllColumnsExist) => err = ""

\* C4: with every file there, employees without the column nationality
\* does not end a dashboard run with an exception, and projects without
\* the column budget_aed does not end the EDA script or the batch report
\* with an exception.
C4_MissingColumnNeverAborts ==
  /\ (prog = "app" /\
      files = DropColumns(BaseFiles, {<<"employees", "nationality">>}))
       => err = ""
  /\ (prog \in {"eda", "report"} /\
      files = DropColumns(BaseFiles, {<<"projects", "budget_aed">>}))
       => err = ""

NonNegative(c) == c.k = "num" /\ c.v >= 0

\* C5: once etl_process or load_and_clean has returned, every cell of
\* budget_aed, amount_aed and salary_aed is a number >= 0.
C5_MoneyIsNonNegative ==
  (EtlDone \/ CleanDone) =>
    \A c \in {"budget_aed", "amount_aed", "salary_aed"} :
      AllCells(dfs, c, NonNegative)

\* The sum of column c of table t.
Total(t, c) == SumCells(Column(t, c))

\* The dashboard has drawn Expenses by Category.
ExpByCatShown == prog = "app" /\ "exp_by_cat" \in DOMAIN out

\* The batch report has been written.
ReportWritten == prog = "report" /\ pc = "done"

\* C6: the per-group sums of a group-by-sum add up to the sum of the value
\* column over the whole table: expenses by project_id in perform_eda,
\* expenses by category in Financial Insights, budgets by industry in the
\* batch report.
C6_PartitionLaw ==
  /\ EdaFinPrinted =>
       Total(GroupSum(dfs["expenses"], "project_id", "amount_aed",
                      "total_expenses"), "total_expenses")
         = Total(dfs["expenses"], "amount_aed")
  /\ ExpByCatShown =>
       Total(out.exp_by_cat, "amount_aed") = Total(dfs["expenses"], "amount_aed")
  /\ ReportWritten =>
       Total(out.ind_data, "budget_aed") = Total(dfs["projects"], "budget_aed")

\* Whether some row of table t holds x in column c.
Holds(t, c, x) == \E i \in 1..Len(t.rows) : t.rows[i][c] = x

\* Every row of child whose key is present and matches no row of parent
\* has its key in a row of joined.
OrphansKept(child, parent, joined, key) ==
  \A i \in 1..Len(child.rows) :
    LET x == child.rows[i][key]
    IN (x # NA /\ ~Holds(parent, key, x)) => Holds(joined, key, x)

\* C7: in perform_eda a purchase order whose vendor_id matches no vendor
\* is in a row of the vendor-spend table, and a timesheet entry whose
\* employee_id matches no employee is in a row of the top-loggers table.
C7_UnmatchedRecordsKept ==
  /\ (prog = "eda" /\ "vendor_spend" \in DOMAIN out) =>
       OrphansKept(dfs["purchase_orders"], dfs["vendors"], out.vendor_spend,
                   "vendor_id")
  /\ (prog = "eda" /\ "top_loggers" \in DOMAIN out) =>
       OrphansKept(dfs["timesheets"], dfs["employees"], out.top_loggers,
                   "employee_id")

\* C8: the report's Total Actual Spend is the sum of amount_aed over all
\* expenses plus the sum of amount_aed over all purchase orders.
C8_TotalSpendCountsEveryRecord ==
  ReportWritten =>
    out.total_spend = Add(Total(dfs["expenses"], "amount_aed"),
                          Total(dfs["purchase_orders"], "amount_aed"))

\* The sum of the whole numbers in column val over the rows whose column
\* key holds kv.
RECURSIVE SumWhere(_, _, _, _)
SumWhere(rows, key, kv, val) ==
  IF rows = <<>> THEN 0
  ELSE (IF Head(rows)[key] = kv THEN Head(rows)[val].v ELSE 0)
       + SumWhere(Tail(rows), key, kv, val)

\* C9: the financial-health table of perform_eda has exactly one row per
\* project, in the projects' order, and on a row whose budget_aed is > 0
\* total_actuals is the sum of the project's expense amounts plus the sum
\* of its purchase-order amounts, budget_variance is budget_aed -
\* total_actuals and budget_utilization_pct is total_actuals / budget_aed
\* * 100.
C9_FinancialHealthRows ==
  EdaFinPrinted =>
    /\ NRows(out.fin_df) = NRows(dfs["projects"])
    /\ \A i \in 1..NRows(dfs["projects"]) :
         LET p == dfs["projects"].rows[i]
             r == out.fin_df.rows[i]
             actuals ==
               SumWhere(dfs["expenses"].rows, "project_id", p["project_id"],
                        "amount_aed")
               + SumWhere(dfs["purchase_orders"].rows, "project_id",
                          p["project_id"], "amount_aed")
         IN /\ r["project_id"] = p["project_id"]
            /\ r["budget_aed"] = p["budget_aed"]
            /\ p["budget_aed"].v > 0 =>
                 /\ r["total_actuals"] = Num(actuals)
                 /\ r["budget_variance"] = Num(p["budget_aed"].v - actuals)
                 /\ r["budget_utilization_pct"] =
                      Rat(actuals * 100, p["budget_aed"].v)

\* The documented scenario has run through perform_eda: budgets 100, 200,
\* 300 with expenses 50, 250, 0 give variances 50, -50, 300 and
\* utilizations 50, 125, 0.
C9_ScenarioComputed ==
  /\ EdaFinPrinted
  /\ files = ScenarioFiles
  /\ Column(out.fin_df, "budget_variance") = <<Num(50), Num(-50), Num(300)>>
  /\ Column(out.fin_df, "budget_utilization_pct")
       = <<Num(50), Num(125), Num(0)>>

\* The columns of projects that perform_eda takes into the financial table.
FinParentCols == {"project_id", "project_name", "budget_aed", "status", "type"}

\* Table fin has the rows of projects in their order, with the values of
\* the columns cs unchanged.
KeepsParent(fin, projects, cs) ==
  /\ NRows(fin) = NRows(projects)
  /\ \A i \in 1..NRows(projects) :
       \A c \in cs : fin.rows[i][c] = projects.rows[i][c]

AllZero(t, c) == \A i \in 1..Len(t.rows) : t.rows[i][c] = Num(0)

\* With an empty child table the financial table is the parent table with
\* the child's total zero on every row.
EmptyChildJoin(fin, d, cs) ==
  /\ (NRows(d["expenses"]) = 0 \/ NRows(d["purchase_orders"]) = 0) =>
       KeepsParent(fin, d["projects"], cs)
  /\ NRows(d["expenses"]) = 0 => AllZero(fin, "total_expenses")
  /\ NRows(d["purchase_orders"]) = 0 => AllZero(fin, "total_pos")
  /\ (NRows(d["expenses"]) = 0 /\ NRows(d["purchase_orders"]) = 0) =>
       AllZero(fin, "total_actuals")

\* C10: when expenses or purchase_orders has no rows, the financial table
\* of perform_eda and of the report has the projects' rows in their order,
\* zero totals for the empty table on every row, and the projects' own
\* columns as they were in the projects table.
C10_EmptyChildJoinKeepsParent ==
  /\ EdaFinPrinted => EmptyChildJoin(out.fin_df, dfs, FinParentCols)
  /\ ReportWritten => EmptyChildJoin(out.fin_df, dfs, FinParentCols)

\* Whether some row of table t holds before in column c where the same
\* row of table u holds after.
Became(t, u, c, before, after) ==
  \E i \in 1..Len(t.rows) : t.rows[i][c] = before /\ u.rows[i][c] = after

\* C11: etl_process is idempotent: applied to the tables it has returned,
\* it returns the same tables, cell for cell, and raises nothing.
C11_EtlIdempotent ==
  EtlDone => etl_process(dfs) = [dfs |-> dfs, err |-> ""]

\* etl_process has returned tables in which a readable date was converted,
\* an unreadable date became absent and an absent amount became 0.
C11_EtlConverted ==
  /\ EtlDone /\ pc = "etl"
  /\ AllFilesExist /\ AllColumnsExist
  /\ Became(files["expenses"], dfs["expenses"], "date",
            Str("2026-01-15"), Date(20260115))
  /\ Became(files["expenses"], dfs["expenses"], "date", Str("abc"), NA)
  /\ Became(files["expenses"], dfs["expenses"], "amount_aed", NA, Num(0))

\* A sort order in which rows with equal values keep their original
\* order.
IsStableOrder(f, cells) ==
  \A i, j \in 1..Len(cells) :
    (i < j /\ cells[f[i]] = cells[f[j]]) => f[i] < f[j]

\* The first n rows of rows in the stable order of column c.
StableTop(t, c, ascending, n) ==
  LET f == CHOOSE g \in SortOrders(Column(t, c), ascending) :
             IsStableOrder(g, Column(t, c))
  IN FirstN(Reorder(t.rows, f), n)

\* C12: every top-N selection is stable: the over-budget listing of
\* perform_eda, the report's top projects by budget and the dashboard's
\* top projects by expenses hold the first N rows of the stable order, in
\* which rows with equal values keep their original order.
C12_TopNStable ==
  /\ (prog = "eda" /\ "over_budget" \in DOMAIN out) =>
       out.over_budget.rows =
         StableTop(WhereNegative(out.fin_df, "budget_variance"),
                   "budget_variance", TRUE, TopOverBudget)
  /\ ReportWritten =>
       out.top_projects.rows =
         StableTop(out.fin_df, "budget_aed", FALSE, TopProjects)
  /\ (prog = "app" /\ "proj_exp" \in DOMAIN out) =>
       LET sums == GroupSum(cache["expenses"], "project_id", "amount_aed",
                            "amount_aed")
           top == [cols |-> sums.cols,
                   rows |-> StableTop(sums, "amount_aed", FALSE, TopProjExp)]
       IN out.proj_exp =
            Relabel(top, "project_id", cache["projects"], "project_id",
                    "project_name", ProjLabelLen)

\* C13: no view computation and no aggregation changes a loaded table:
\* when a view of the dashboard is drawn the run's tables are the tables
\* load_data returned, and when perform_eda or generate_html_report has
\* ended the tables are the tables normalization returned.
C13_SourceTablesUnchanged ==
  /\ (prog = "app" /\ pc = "shown") => dfs = cache
  /\ (prog = "eda" /\ pc = "done") =>
       dfs = etl_process(LoadedFrom(files, EdaTables)).dfs
  /\ ReportWritten => dfs = load_and_clean(files).dfs

\* C14: in the dashboard the table files are read once: once load_data
\* has returned, no later run of the script executes its body again or
\* replaces the tables held, whatever view or filter the run selects; the
\* tables held are the ones of the one load.
C14_LoadedOnce ==
  /\ [][(prog = "app" /\ cache # NoCache) =>
          (loads' = loads /\ cache' = cache)]_vars
  /\ [](cache # NoCache => (loads = 1 /\ cache = AppLoadBody(files)))

\* A filter was changed on Project Analytics, which takes at least three
\* runs of the script, and the body of load_data has run once.
C14_NavigatedAfterLoad ==
  /\ prog = "app" /\ pc = "shown"
  /\ page = "Project Analytics" /\ sel # NoSel
  /\ loads = 1

\* C15: data_analytics.load_data does not abort on an absent file: it
\* returns a mapping whose keys are exactly the tables whose file exists,
\* each holding its file's content as pd.read_csv reads it, and warns once
\* about every table whose file is missing.
C15_LoadDataSkipsMissing ==
  (prog = "eda" /\ pc = "loaded") =>
    /\ err = ""
    /\ \A n \in EdaTables :
         /\ n \in DOMAIN dfs <=> n \in DOMAIN files
         /\ n \in warned <=> n \notin DOMAIN files
         /\ n \in DOMAIN dfs => dfs[n] = ReadCsv(files[n])
    /\ DOMAIN dfs \subseteq EdaTables /\ warned \subseteq EdaTables

\* load_data has returned with some files there and some missing.
C15_SomeFilesMissing ==
  /\ prog = "eda" /\ pc = "loaded"
  /\ DOMAIN dfs # {} /\ warned # {}
  /\ DOMAIN dfs \cup warned = EdaTables

\* The numbers and the absent marker.
NumberOrAbsent(c) == c.k \in {"num", "na"}

\* C16: with every file and column there, the dashboard recovers a cell
\* of budget_aed, amount_aed, salary_aed or hours_logged that is no number
\* as zero or absent when it loads the tables, and no view raises a fault.
C16_DashboardRecoversBadCells ==
  (prog = "app" /\ pc # "start" /\ AllFilesExist /\ AllColumnsExist) =>
    /\ err = ""
    /\ \A c \in {"budget_aed", "amount_aed", "salary_aed", "hours_logged"} :
         AllCells(cache, c, NumberOrAbsent)

\* Project Analytics has drawn its metrics.
MetricsShown == prog = "app" /\ "avg_progress" \in DOMAIN out

\* C17: on Project Analytics, whatever the selections, Avg Progress is a
\* finite number, and it is 0 when no project passes the filters.
C17_AvgProgressDefined ==
  MetricsShown =>
    /\ IsFinite(out.avg_progress)
    /\ NRows(out.filtered_projects) = 0 => out.avg_progress = Num(0)

\* C18: the dashboard's Completion Rate is 0 when tasks has no rows and
\* otherwise completed_tasks / total_tasks * 100, a number from 0 to 100;
\* its Budget Utilization is 0 when the total budget is 0 and otherwise
\* total_expenses / total_budget * 100.
C18_GuardedPercentages ==
  /\ (prog = "app" /\ "completion_rate" \in DOMAIN out) =>
       LET total == NRows(cache["tasks"])
           completed == CountWhere(cache["tasks"], "status", "Completed")
       IN /\ out.completion_rate =
               IF total = 0 THEN Num(0) ELSE Rat(completed * 100, total)
          /\ ~Less(out.completion_rate, Num(0))
          /\ ~Less(Num(100), out.completion_rate)
  /\ (prog = "app" /\ "utilization" \in DOMAIN out) =>
       LET total_budget == Total(cache["projects"], "budget_aed")
           total_expenses == Total(cache["expenses"], "amount_aed")
       IN out.utilization =
            IF total_budget = Num(0) THEN Num(0)
            ELSE Scale(Div(total_expenses, total_budget), 100)

\* Whether a project passes the current selections: an empty selection
\* passes every project.
Selected(r) ==
  /\ sel.type = {} \/ r["type"] \in sel.type
  /\ sel.status = {} \/ r["status"] \in sel.status
  /\ sel.priority = {} \/ r["priority"] \in sel.priority

\* C19: whatever runs came before, the figures of Project Analytics are
\* computed from the projects load_data returned that pass the current
\* selections, in their original order, and from nothing else.
C19_FiguresFollowSelections ==
  MetricsShown =>
    LET projects == AppLoadBody(files)["projects"]
        passing == SelectSeq(projects.rows, Selected)
        progress == [i \in 1..Len(passing) |->
                       passing[i]["completion_percentage"]]
        budgets == [i \in 1..Len(passing) |-> passing[i]["budget_aed"]]
    IN /\ page = "Project Analytics"
       /\ out.filtered_projects = [cols |-> projects.cols, rows |-> passing]
       /\ out.n_projects =
            Num(Cardinality({i \in 1..Len(projects.rows) :
                               Selected(projects.rows[i])}))
       /\ out.total_budget = SumCells(budgets)
       /\ out.avg_progress = MeanCells(progress)

\* Project Analytics is drawn with a type and a status selected that some
\* projects pass and some do not.
C19_SomeProjectsFiltered ==
  /\ MetricsShown
  /\ sel.type # {} /\ sel.status # {}
  /\ NRows(out.filtered_projects) > 0
  /\ NRows(out.filtered_projects) < NRows(cache["projects"])

\* The totals of a financial-health table, project by project.
FinTotals(t) ==
  [i \in 1..NRows(t) |->
     <<t.rows[i]["project_id"], t.rows[i]["total_expenses"],
       t.rows[i]["total_pos"], t.rows[i]["total_actuals"]>>]

\* C20: on the same normalized tables the report and the EDA script
\* compute the same total_expenses, total_pos and total_actuals for every
\* project: the table either script has computed has the totals the other
\* script computes from the tables it holds.
C20_SameFinancialTotals ==
  /\ EdaFinPrinted => FinTotals(out.fin_df) = FinTotals(FinHealthReport(dfs))
  /\ (ReportWritten /\ HasCols(dfs, EdaSecNeed(1))) =>
       FinTotals(out.fin_df) = FinTotals(FinHealthEda(dfs))

\* perform_eda has computed the table for two or more projects, one with
\* expenses and no purchase order, whose absent total was filled with 0.
C20_AbsentTotalFilled ==
  /\ EdaFinPrinted
  /\ NRows(out.fin_df) >= 2
  /\ \E i \in 1..NRows(out.fin_df) :
       /\ Less(Num(0), out.fin_df.rows[i]["total_expenses"])
       /\ out.fin_df.rows[i]["total_pos"] = Num(0)
  /\ \E i \in 1..NRows(out.fin_df) :
       out.fin_df.rows[i]["total_expenses"] = Num(0)

====
